---- MODULE Spec2Model ----
(***************************************************************************)
(* Birth certificate fee waiver agents.                                    *)
(*                                                                         *)
(*   ConversationalAgent (conversational_agent.py): the multi-turn         *)
(*   session state machine; specification Spec.                            *)
(*   WebhookAgent (webhook_agent.py) and the /api/process route            *)
(*   (web_app.py): validator, submitter, single-shot pipeline;             *)
(*   specification SpecPipeline.                                           *)
(*                                                                         *)
(* Python dicts are functions whose DOMAIN is the set of keys, lists are   *)
(* sequences.  Free text is a sequence of characters so that str.strip()   *)
(* and truthiness are computed, not assumed.                               *)
(***************************************************************************)
EXTENDS Integers, Sequences, FiniteSets, TLC

VARIABLES
    sessions,      \* ConversationalAgent.sessions: session_id -> session dict
    uuid_count,    \* number of uuid4() values drawn so far (ids are 1..uuid_count)
    clock,         \* time.time(), advanced at every history append
    post_log,      \* every requests.post issued by ConversationalAgent.send_webhook
    turn,          \* the last call on the ConversationalAgent: inputs, I/O issued, result,
                   \* and the number of continue_conversation calls so far
    heard,         \* what extract_information returned in that call (kept by SpecTurn only)
    pstep,         \* single-shot side: which entry point ran
    pin,           \* single-shot side: the input of the entry point
    pout,          \* single-shot side: the value it returned
    pposts,        \* every requests.post issued by WebhookAgent.send_webhook
    trace,         \* the model, validator and webhook calls that the last call of an
                   \* entry point made, in the order it made them
    conversational_agent,  \* web_app.py: the module global (an instance, or none)
    agents,        \* web_app.py: the ConversationalAgent instances constructed so far,
                   \* each one its sessions dict
    reqs           \* web_app.py: the chat requests received, each with the position
                   \* of its thread, its locals and its result

convVars == <<sessions, uuid_count, clock, post_log, turn, heard>>
pipeVars == <<pstep, pin, pout, pposts>>
webVars == <<conversational_agent, agents, reqs>>
vars ==
    <<sessions, uuid_count, clock, post_log, turn, heard, pstep, pin, pout, pposts, trace,
      conversational_agent, agents, reqs>>

-----------------------------------------------------------------------------
(* Bounds *)

MaxRequests == 3      \* chat requests received by the web application (SpecServer)
MaxAnswered == 3      \* sessions created (SpecAnswered)

MaxSessions == 2      \* sessions created (Spec)
MaxTurns == 3         \* continue_conversation calls, over all sessions (Spec)
MaxTurnSessions == 1  \* sessions created (SpecTurn)
MaxTurnTurns == 2     \* continue_conversation calls (SpecTurn)
MaxExtracted == 2     \* keys in one answer of the model (SpecTurn)

-----------------------------------------------------------------------------
(* Python values *)

\* A string is a sequence of tokens, each a whitespace character or a word:
\* "" is <<>>, " Ann " is <<" ", "Ann", " ">>.  None is a value that is no string.
None == <<"<None>">>  \* Python None / JSON null

\* dict.update(other)
DictUpdate(d, other) ==
    [k \in (DOMAIN d) \cup (DOMAIN other) |->
        IF k \in DOMAIN other THEN other[k] ELSE d[k]]

\* dict.get(key, default)
DictGet(d, k, default) == IF k \in DOMAIN d THEN d[k] ELSE default

EmptyDict == [k \in {} |-> None]

\* the keys of d other than those in removed
DictWithout(d, removed) == [k \in (DOMAIN d) \ removed |-> d[k]]

\* bool(v) of a string or None
Truthy(v) == v # None /\ v # <<>>

\* a or b
PyOr(a, b) == IF Truthy(a) THEN a ELSE b

IsSpace(c) == c = " "

RECURSIVE LStrip(_)
LStrip(text) ==
    IF text # <<>> /\ IsSpace(Head(text)) THEN LStrip(Tail(text)) ELSE text

RECURSIVE RStrip(_)
RStrip(text) ==
    IF text # <<>> /\ IsSpace(text[Len(text)])
    THEN RStrip(SubSeq(text, 1, Len(text) - 1))
    ELSE text

\* str.strip()
Strip(text) == RStrip(LStrip(text))

-----------------------------------------------------------------------------
(* ConversationalAgent: schema *)

\* self.required_fields, in insertion order
required_fields == <<"adult_name", "email_address", "signup_type", "child_name">>

FieldNames == {required_fields[i] : i \in 1..Len(required_fields)}

\* child_name made to depend on signup type "self"
conditional_OnSelf == [child_name |-> [field |-> "signup_type", value |-> "self"]]

\* the "conditional" entries of self.required_fields
conditional == [child_name |-> [field |-> "signup_type", value |-> "child"]]

\* confidence scores are tenths: 7 is 0.7
ConfidenceThreshold == 7

\* what the model may return for each key of extracted_fields
ExtractValues ==
    [adult_name |-> {<<"Ann">>},
     email_address |-> {<<"a@x">>},
     signup_type |-> {<<"self">>, <<"child">>, <<"myself">>},
     child_name |-> {<<"Cy">>},
     note |-> {<<"hi">>}]

ExtractKeys == DOMAIN ExtractValues

\* a score above the threshold (0.9)
HighConfidence == ConfidenceThreshold + 2

\* confidence scores the model may report (0.7, 0.9)
ConfidenceValues == {ConfidenceThreshold, HighConfidence}

\* what requests.post can do: return a response, or raise a RequestException
HttpOutcomes ==
    {[kind |-> "response", status_code |-> 200, text |-> "ok"],
     [kind |-> "response", status_code |-> 201, text |-> "created"],
     [kind |-> "response", status_code |-> 500, text |-> "boom"],
     [kind |-> "exception", error |-> "connection refused"]}

\* the text of a user turn
UserInputs == {<<"hello">>}

\* the calls recorded in trace
LlmCall == "chat.completions.create"
ValidateCall == "_validate_form_data"
PostCall == "requests.post"

\* one requests.post per request issued
PostCalls(requests) == [i \in DOMAIN requests |-> PostCall]

-----------------------------------------------------------------------------
(* ConversationalAgent.create_session *)

NewSession ==
    [collected_data |-> EmptyDict,
     conversation_history |-> <<>>,
     current_step |-> "greeting",
     missing_fields |-> required_fields]

\* uuid.uuid4(): a value never drawn before
Uuid4 == uuid_count + 1

-----------------------------------------------------------------------------
(* ConversationalAgent.extract_information: what the call can return *)

\* JSON objects of the expected shape, of at most max keys
WellFormedInfos(max) ==
    UNION {UNION {{[json |-> "object", extracted_fields |-> ef, confidence |-> cf] :
                      ef \in {g \in [K -> UNION {ExtractValues[k] : k \in K}] :
                                 \A k \in K : g[k] \in ExtractValues[k]}} :
                  cf \in UNION {[C -> ConfidenceValues] : C \in SUBSET K}} :
           K \in {S \in SUBSET ExtractKeys : Cardinality(S) <= max}}

\* lines 126 and 130: failed call, no braces, or JSONDecodeError
EmptyInfo == [json |-> "object", extracted_fields |-> EmptyDict, confidence |-> EmptyDict]

\* line 122 returns whatever json.loads produced, unchecked: here an object
\* whose extracted_fields is null
NullFieldsInfo ==
    [json |-> "null_extracted_fields", extracted_fields |-> EmptyDict,
     confidence |-> EmptyDict]

ExtractResults(max) == WellFormedInfos(max) \cup {EmptyInfo, NullFieldsInfo}

-----------------------------------------------------------------------------
(* ConversationalAgent.send_webhook *)

\* success for every 2xx status
send_webhook_Any2xx(form_data, http) ==
    [requests |-> <<form_data>>,
     result |->
        IF http.kind = "response"
        THEN [success |-> http.status_code >= 200 /\ http.status_code < 300,
              status_code |-> http.status_code,
              response_text |-> http.text,
              sent_data |-> form_data]
        ELSE [success |-> FALSE,
              error |-> http.error,
              sent_data |-> form_data]]

\* The POST requests issued (their JSON bodies, in order) and the value returned.
send_webhook(form_data, http) ==
    [requests |-> <<form_data>>,
     result |->
        IF http.kind = "response"
        THEN [success |-> http.status_code = 200,
              status_code |-> http.status_code,
              response_text |-> http.text,
              sent_data |-> form_data]
        ELSE [success |-> FALSE,
              error |-> http.error,
              sent_data |-> form_data]]

-----------------------------------------------------------------------------
(* ConversationalAgent.generate_response *)

\* the gate with >= in place of >
NewData_AtThreshold(extracted_info) ==
    LET extracted_fields == extracted_info.extracted_fields
        confidence_scores == extracted_info.confidence
    IN [field \in {f \in DOMAIN extracted_fields :
                      /\ f \in FieldNames
                      /\ DictGet(confidence_scores, f, 0) >= ConfidenceThreshold}
          |-> extracted_fields[field]]

\* only extractions scored above 0.9 are taken
NewData_AboveHigh(extracted_info) ==
    LET extracted_fields == extracted_info.extracted_fields
        confidence_scores == extracted_info.confidence
    IN [field \in {f \in DOMAIN extracted_fields :
                      /\ f \in FieldNames
                      /\ DictGet(confidence_scores, f, 0) > HighConfidence}
          |-> extracted_fields[field]]

\* lines 144-149: the high-confidence extractions of schema fields
NewData(extracted_info) ==
    LET extracted_fields == extracted_info.extracted_fields
        confidence_scores == extracted_info.confidence
    IN [field \in {f \in DOMAIN extracted_fields :
                      /\ f \in FieldNames
                      /\ DictGet(confidence_scores, f, 0) > ConfidenceThreshold}
          |-> extracted_fields[field]]

\* merged fields left in missing_fields
RemoveCollected_KeepsAll(missing_fields, new_data) == missing_fields

\* lines 148-149: missing_fields.remove(field) for every merged field
RemoveCollected(missing_fields, new_data) ==
    LET Outstanding(f) == f \notin DOMAIN new_data
    IN SelectSeq(missing_fields, Outstanding)

\* no conditional filter: every field not yet collected stays missing
ActualMissing_Unfiltered(missing_fields, collected_data) == missing_fields

\* lines 154-172: filter missing fields on the conditional requirements
ActualMissing(missing_fields, collected_data) ==
    LET Keep(field) ==
            IF field \in DOMAIN conditional
            THEN LET condition == conditional[field]
                 IN \/ DictGet(collected_data, condition.field, None) = <<condition.value>>
                    \/ condition.field \notin DOMAIN collected_data
            ELSE TRUE
    IN SelectSeq(missing_fields, Keep)

\* the agent's message, lines 192-208: the question of the next field (the
\* acknowledgment sentence in front of it is left out of the text)
QuestionMessage(next_field) == [text |-> "question", question |-> next_field]

CompletionMessage ==
    [text |-> "Perfect! I have all the information needed.", question |-> "none"]

\* The response, and the POST requests issued on the way (line 177).
generate_response(session_data, extracted_info, http) ==
    LET new_data == NewData(extracted_info)
        collected_data == DictUpdate(session_data.collected_data, new_data)
        missing_fields ==
            ActualMissing(RemoveCollected(session_data.missing_fields, new_data),
                          collected_data)
    IN IF missing_fields = <<>>
       THEN LET sent == send_webhook(collected_data, http)
            IN [requests |-> sent.requests,
                response |->
                   [type |-> "completion",
                    message |-> CompletionMessage,
                    data_collected |-> collected_data,
                    webhook_result |-> sent.result,
                    session_complete |-> TRUE]]
       ELSE [requests |-> <<>>,
             response |->
                [type |-> "question",
                 message |-> QuestionMessage(missing_fields[1]),
                 asking_for |-> missing_fields[1],
                 data_collected |-> collected_data,
                 missing_fields |-> missing_fields,
                 session_complete |-> FALSE]]

-----------------------------------------------------------------------------
(* ConversationalAgent: operations *)

NoResponse == [type |-> "none", session_complete |-> FALSE]

\* no POST was issued
NoHttp == [kind |-> "none"]

\* every session stored as one shared dict object
update_session_Shared(session_id, updates) ==
    [sid \in DOMAIN sessions |-> updates]

\* update_session, lines 63-66: only the addressed entry of self.sessions
update_session(session_id, updates) ==
    [sessions EXCEPT ![session_id] = updates]

\* the requests of one send_webhook call, as entries of the log
Logged(session_id, requests) ==
    [i \in DOMAIN requests |-> [session_id |-> session_id, json |-> requests[i]]]

\* an exception propagated to the caller instead of a return value
Raised(what) == [type |-> "exception", exception |-> what, session_complete |-> FALSE]

HistoryEntry(type, message, timestamp) ==
    [type |-> type, message |-> message, timestamp |-> timestamp]

UserMessage(user_input) == [text |-> "user", question |-> "none", said |-> user_input]

SessionNotFound == [text |-> "Session not found.", question |-> "none"]

InitConversation ==
    /\ sessions = <<>>
    /\ uuid_count = 0
    /\ clock = 0
    /\ post_log = <<>>
    /\ turn = [op |-> "init", session_id |-> 0, user_input |-> <<>>,
               llm_requests |-> 0, http_posts |-> 0, http |-> NoHttp,
               response |-> NoResponse, calls |-> 0]
    /\ heard = EmptyInfo

\* start_conversation (which calls create_session)
start_conversation ==
    /\ LET session_id == Uuid4
       IN /\ sessions' = [sid \in (DOMAIN sessions) \cup {session_id} |->
                            IF sid = session_id THEN NewSession ELSE sessions[sid]]
          /\ uuid_count' = uuid_count + 1
          /\ turn' = [op |-> "start_conversation", session_id |-> session_id,
                      user_input |-> <<>>, llm_requests |-> 0, http_posts |-> 0,
                      http |-> NoHttp,
                      response |->
                         [session_id |-> session_id,
                          type |-> "greeting",
                          message |-> QuestionMessage("adult_name"),
                          asking_for |-> "adult_name",
                          session_complete |-> FALSE],
                      calls |-> turn.calls]
    /\ trace' = <<>>
    /\ UNCHANGED <<clock, post_log, pipeVars, webVars>>

\* get_session creating the entry it does not find
continue_unknown_Creates(session_id, user_input) ==
    /\ session_id \notin DOMAIN sessions
    /\ sessions' = [sid \in (DOMAIN sessions) \cup {session_id} |->
                      IF sid = session_id THEN NewSession ELSE sessions[sid]]
    /\ turn' = [op |-> "continue_conversation", session_id |-> session_id,
                user_input |-> user_input, llm_requests |-> 0, http_posts |-> 0,
                http |-> NoHttp,
                response |->
                   [type |-> "error",
                    message |-> SessionNotFound,
                    session_complete |-> TRUE],
                calls |-> turn.calls + 1]
    /\ trace' = <<>>
    /\ UNCHANGED <<uuid_count, clock, post_log, pipeVars, webVars>>

\* continue_conversation, lines 256-263: get_session finds nothing
continue_unknown(session_id, user_input) ==
    /\ session_id \notin DOMAIN sessions
    /\ turn' = [op |-> "continue_conversation", session_id |-> session_id,
                user_input |-> user_input, llm_requests |-> 0, http_posts |-> 0,
                http |-> NoHttp,
                response |->
                   [type |-> "error",
                    message |-> SessionNotFound,
                    session_complete |-> TRUE],
                calls |-> turn.calls + 1]
    /\ trace' = <<>>
    /\ UNCHANGED <<sessions, uuid_count, clock, post_log, pipeVars, webVars>>

\* continue_conversation, lines 265-276 when generate_response raises at
\* line 145 (None has no items()): the user turn is already in the history
continue_raises(session_id, user_input, extracted_info) ==
    /\ session_id \in DOMAIN sessions
    /\ extracted_info.json = "null_extracted_fields"
    /\ sessions' = update_session(session_id,
                        [sessions[session_id] EXCEPT !.conversation_history =
                            Append(@, HistoryEntry("user", UserMessage(user_input), clock))])
    /\ clock' = clock + 1
    /\ turn' = [op |-> "continue_conversation", session_id |-> session_id,
                user_input |-> user_input, llm_requests |-> 1, http_posts |-> 0,
                http |-> NoHttp,
                response |-> Raised("AttributeError"),
                calls |-> turn.calls + 1]
    /\ trace' = <<LlmCall>>
    /\ UNCHANGED <<uuid_count, post_log, pipeVars, webVars>>

\* continue_conversation, lines 265-294
continue_turn(session_id, user_input, extracted_info, http) ==
    /\ session_id \in DOMAIN sessions
    /\ extracted_info.json = "object"
    /\ LET session_data == sessions[session_id]
           history == Append(session_data.conversation_history,
                             HistoryEntry("user", UserMessage(user_input), clock))
       IN \E generated \in {generate_response(session_data, extracted_info, http)} :
          LET response == generated.response
          IN /\ sessions' = update_session(session_id,
                   [collected_data |-> response.data_collected,
                    missing_fields |-> DictGet(response, "missing_fields", <<>>),
                    conversation_history |->
                       Append(history, HistoryEntry("agent", response.message, clock + 1)),
                    current_step |-> session_data.current_step])
             /\ post_log' = post_log \o Logged(session_id, generated.requests)
             /\ turn' = [op |-> "continue_conversation", session_id |-> session_id,
                         user_input |-> user_input, llm_requests |-> 1,
                         http_posts |-> Len(generated.requests),
                         http |-> IF generated.requests = <<>> THEN NoHttp ELSE http,
                         response |-> DictUpdate(response, [session_id |-> session_id]),
                         calls |-> turn.calls + 1]
             /\ trace' = <<LlmCall>> \o PostCalls(generated.requests)
    /\ clock' = clock + 2
    /\ UNCHANGED <<uuid_count, pipeVars, webVars>>

-----------------------------------------------------------------------------
(* WebhookAgent._validate_form_data *)

\* a failure result that carries the fields validated so far
Failure_Partial(validated, error) ==
    DictUpdate([valid |-> FALSE, error |-> <<error>>], validated)

\* lines 146-148 (and 154-156, 168-170, 178-180): the failure result; nothing
\* validated so far is copied into it
Failure(validated, error) == [valid |-> FALSE, error |-> <<error>>]

\* lines 137 and 184: result.update(validated)
Success(validated) == DictUpdate([valid |-> TRUE, error |-> None], validated)

\* the legacy flag taken whenever it is present, whatever signup_type holds
ResolveSignupType_FlagFirst(form_data) ==
    IF "request_on_behalf" \in DOMAIN form_data
    THEN IF form_data["request_on_behalf"] = <<"y">> THEN <<"child">> ELSE <<"self">>
    ELSE DictGet(form_data, "signup_type", None)

\* lines 160-163: signup_type, or the legacy request_on_behalf flag
ResolveSignupType(form_data) ==
    LET signup_type == DictGet(form_data, "signup_type", None)
    IN IF ~Truthy(signup_type) /\ "request_on_behalf" \in DOMAIN form_data
       THEN IF form_data["request_on_behalf"] = <<"y">> THEN <<"child">> ELSE <<"self">>
       ELSE signup_type

\* the else branch keeping the supplied name, and no key without one
ValidateChildName_KeepsName(form_data, validated) ==
    LET child_name == PyOr(DictGet(form_data, "child_name", None),
                           DictGet(form_data, "name_of_child", None))
    IN IF validated["signup_type"] = <<"child">>
       THEN IF Truthy(child_name)
            THEN Success(DictUpdate(validated, [child_name |-> Strip(child_name)]))
            ELSE Failure(validated, "Child name is required when signup type is 'child'")
       ELSE IF Truthy(child_name)
            THEN Success(DictUpdate(validated, [child_name |-> Strip(child_name)]))
            ELSE Success(validated)

\* lines 172-185: child_name, then the success result
ValidateChildName(form_data, validated) ==
    LET child_name == PyOr(DictGet(form_data, "child_name", None),
                           DictGet(form_data, "name_of_child", None))
    IN IF validated["signup_type"] = <<"child">>
       THEN IF Truthy(child_name)
            THEN Success(DictUpdate(validated, [child_name |-> Strip(child_name)]))
            ELSE Failure(validated, "Child name is required when signup type is 'child'")
       ELSE Success(DictUpdate(validated, [child_name |-> None]))

_validate_form_data(form_data) ==
    LET adult_name == PyOr(DictGet(form_data, "adult_name", None),
                           DictGet(form_data, "name_of_requestor", None))
    IN IF ~Truthy(adult_name)
       THEN Failure(EmptyDict, "Adult name is required")
       ELSE
    LET validated1 == [adult_name |-> Strip(adult_name)]
    IN IF ~("email_address" \in DOMAIN form_data /\ Truthy(form_data["email_address"]))
       THEN Failure(validated1, "Email address is required")
       ELSE
    LET validated2 == DictUpdate(validated1,
                                 [email_address |-> Strip(form_data["email_address"])])
        signup_type == ResolveSignupType(form_data)
    IN IF signup_type \notin {<<"self">>, <<"child">>}
       THEN Failure(validated2, "Signup type must be 'self' or 'child'")
       ELSE ValidateChildName(form_data,
                              DictUpdate(validated2, [signup_type |-> signup_type]))

-----------------------------------------------------------------------------
(* WebhookAgent.send_webhook *)

\* a second POST issued when the first is not answered by 200
WebhookAgent_send_webhook_Retry(form_data, http) ==
    [requests |->
        IF http.kind = "response" /\ http.status_code = 200
        THEN <<form_data>>
        ELSE <<form_data, form_data>>,
     result |->
        IF http.kind = "response"
        THEN [success |-> http.status_code = 200,
              status_code |-> http.status_code,
              response_text |-> http.text,
              sent_data |-> form_data]
        ELSE [success |-> FALSE,
              error |-> http.error,
              sent_data |-> form_data]]

\* The POST requests issued (their JSON bodies, in order) and the value returned.
WebhookAgent_send_webhook(form_data, http) ==
    [requests |-> <<form_data>>,
     result |->
        IF http.kind = "response"
        THEN [success |-> http.status_code = 200,
              status_code |-> http.status_code,
              response_text |-> http.text,
              sent_data |-> form_data]
        ELSE [success |-> FALSE,
              error |-> http.error,
              sent_data |-> form_data]]

-----------------------------------------------------------------------------
(* WebhookAgent: what the model call can do *)

Absent == <<"<absent>">>  \* marks a key that the dict does not have

\* the values a parsed JSON object may carry under each key
RawValues ==
    [adult_name : {Absent, None, <<>>, <<" ">>, <<"Ann">>, <<" ", "Ann">>},
     name_of_requestor : {Absent, <<>>, <<"Bob">>},
     email_address : {Absent, <<>>, <<" ">>, <<"a@x", " ">>},
     signup_type : {Absent, <<>>, <<"self">>, <<"child">>, <<"myself">>},
     request_on_behalf : {Absent, <<>>, <<"y">>, <<"n">>, <<"yes">>, <<"no">>,
                          <<"Y">>, <<"maybe">>},
     child_name : {Absent, None, <<" ">>, <<"Cy">>},
     name_of_child : {Absent, <<"Di">>}]

\* the dict with the keys that are present
AsDict(options) ==
    [k \in {key \in DOMAIN options : options[key] # Absent} |-> options[k]]

RawRecords == {AsDict(options) : options \in RawValues}

\* a scanner that reads an email address as well
ScannerValues_WithEmail ==
    [name_of_requestor : {Absent, <<>>, <<"Bob">>},
     email_address : {Absent, <<"a@x">>},
     request_on_behalf : {Absent, <<"y">>, <<"n">>},
     name_of_child : {Absent, <<>>, <<"Di">>}]

\* what _parse_structured_response (lines 101-133) can return: a requestor
\* name, a y/n flag, and a child name only next to the flag y
ScannerValues ==
    [name_of_requestor : {Absent, <<>>, <<"Bob">>},
     request_on_behalf : {Absent, <<"y">>, <<"n">>},
     name_of_child : {Absent, <<>>, <<"Di">>}]

ScannerRecords ==
    {AsDict(options) : options \in
        {o \in ScannerValues :
            o.name_of_child # Absent => o.request_on_behalf = <<"y">>}}

\* the extractions of the scenarios of test_agent.py (lines 25-56), in the
\* field names they expect: requestor, homelessness flag, on-behalf flag, and
\* the child's name when on behalf
LegacyScenarios ==
    {[name_of_requestor |-> <<"John Smith">>, homeless |-> <<"n">>,
      request_on_behalf |-> <<"y">>, name_of_child |-> <<"Sarah Smith">>],
     [name_of_requestor |-> <<"Jane Doe">>, homeless |-> <<"n">>,
      request_on_behalf |-> <<"n">>],
     [name_of_requestor |-> <<"Mike Johnson">>, homeless |-> <<"y">>,
      request_on_behalf |-> <<"n">>]}

\* chat.completions.create raises; or the content holds a JSON object; or it
\* holds none (or json.loads fails) and the line scanner is used
LlmOutcomes ==
    {[kind |-> "exception", data |-> EmptyDict]}
    \cup {[kind |-> "json", data |-> d] : d \in RawRecords \cup LegacyScenarios}
    \cup {[kind |-> "text", data |-> d] : d \in ScannerRecords}

-----------------------------------------------------------------------------
(* WebhookAgent.collect_form_data, lines 62-99 *)

collect_form_data(llm) ==
    IF llm.kind = "exception"
    THEN EmptyDict
    ELSE _validate_form_data(llm.data)

\* the calls collect_form_data makes: the completion request of line 63, then
\* the validator when the request returned (lines 88 and 94)
collect_form_data_calls(llm) ==
    IF llm.kind = "exception"
    THEN <<LlmCall>>
    ELSE <<LlmCall, ValidateCall>>

-----------------------------------------------------------------------------
(* WebhookAgent.process_user_input *)

\* success reported whatever the webhook outcome
SubmitResult_AlwaysSuccess(validated_form_data, webhook_result) ==
    [success |-> TRUE,
     form_data |-> validated_form_data,
     webhook_result |-> webhook_result]

\* lines 260-264: the result of the submit branch
SubmitResult(validated_form_data, webhook_result) ==
    [success |-> webhook_result["success"],
     form_data |-> validated_form_data,
     webhook_result |-> webhook_result]

\* The POST requests issued, the calls made in order, and the value returned.
process_user_input(llm, http) ==
    LET form_data == collect_form_data(llm)
    IN IF DOMAIN form_data = {}
       THEN [requests |-> <<>>,
             calls |-> collect_form_data_calls(llm),
             result |-> [success |-> FALSE,
                         error |-> <<"Failed to extract form data from user input">>]]
       ELSE
    LET validation_result == _validate_form_data(form_data)
    IN IF ~DictGet(validation_result, "valid", FALSE)
       THEN [requests |-> <<>>,
             calls |-> collect_form_data_calls(llm) \o <<ValidateCall>>,
             result |-> [success |-> FALSE,
                         error |-> DictGet(validation_result, "error",
                                           <<"Invalid form data">>),
                         extracted_data |-> form_data]]
       ELSE
    LET validated_form_data == DictWithout(validation_result, {"valid", "error"})
        sent == WebhookAgent_send_webhook(validated_form_data, http)
    IN [requests |-> sent.requests,
        calls |-> collect_form_data_calls(llm) \o <<ValidateCall>>
                     \o PostCalls(sent.requests),
        result |-> SubmitResult(validated_form_data, sent.result)]

\* cli.py, app.py and the natural branch of /api/process call process_user_input
ProcessUserInput(llm, http) ==
    /\ \E done \in {process_user_input(llm, http)} :
          /\ pstep' = "process_user_input"
          /\ pin' = [llm |-> llm, http |-> IF done.requests = <<>> THEN NoHttp ELSE http]
          /\ pout' = done.result
          /\ pposts' = pposts \o done.requests
          /\ trace' = done.calls
    /\ UNCHANGED <<convVars, webVars>>

\* a caller validating a dict
ValidateFormData(form_data) ==
    /\ pstep' = "_validate_form_data"
    /\ pin' = form_data
    /\ pout' = _validate_form_data(form_data)
    /\ trace' = <<ValidateCall>>
    /\ UNCHANGED <<pposts, convVars, webVars>>

-----------------------------------------------------------------------------
(* web_app.py: the structured branch of process_form, lines 104-155 *)

\* what the browser may post under each key
StructuredValues ==
    [adult_name : {Absent, None, <<>>, <<" ">>, <<" ", "Ann">>},
     email_address : {Absent, None, <<" ">>, <<"a@x", " ">>},
     signup_type : {Absent, <<"self">>, <<"child">>, <<"kid">>},
     child_name : {Absent, None, <<" ">>, <<"Cy">>}]

StructuredRequests == {AsDict(options) : options \in StructuredValues}

\* data.get(key, '').strip() if data.get(key) else None
StrippedOrNone(data, key) ==
    IF Truthy(DictGet(data, key, None)) THEN Strip(data[key]) ELSE None

ErrorResponse(error) == [success |-> FALSE, error |-> <<error>>]

\* The POST requests issued and the JSON returned.
process_form(data, http) ==
    IF DictGet(data, "adult_name", <<>>) = None
    THEN \* None.strip() raises, caught at line 163
         [requests |-> <<>>, calls |-> <<>>, result |-> ErrorResponse("Processing error")]
    ELSE
    LET form_data ==
            [adult_name |-> Strip(DictGet(data, "adult_name", <<>>)),
             email_address |-> StrippedOrNone(data, "email_address"),
             signup_type |-> DictGet(data, "signup_type", <<>>),
             child_name |-> StrippedOrNone(data, "child_name")]
    IN IF ~Truthy(form_data.adult_name)
       THEN [requests |-> <<>>, calls |-> <<>>,
             result |-> ErrorResponse("Adult name is required")]
       ELSE IF ~Truthy(form_data.email_address)
       THEN [requests |-> <<>>, calls |-> <<>>,
             result |-> ErrorResponse("Email address is required")]
       ELSE IF form_data.signup_type \notin {<<"self">>, <<"child">>}
       THEN [requests |-> <<>>, calls |-> <<>>,
             result |-> ErrorResponse("Signup type must be self or child")]
       ELSE IF form_data.signup_type = <<"child">> /\ ~Truthy(form_data.child_name)
       THEN [requests |-> <<>>, calls |-> <<>>,
             result |-> ErrorResponse("Child name is required when signing up for a child")]
       ELSE
    LET validation_result == _validate_form_data(form_data)
    IN IF ~validation_result["valid"]
       THEN [requests |-> <<>>, calls |-> <<ValidateCall>>,
             result |-> [success |-> FALSE,
                         error |-> validation_result["error"],
                         extracted_data |-> form_data]]
       ELSE
    LET sent == WebhookAgent_send_webhook(form_data, http)
    IN [requests |-> sent.requests,
        calls |-> <<ValidateCall>> \o PostCalls(sent.requests),
        result |-> [success |-> sent.result.success,
                    form_data |-> form_data,
                    webhook_result |-> sent.result,
                    error |-> IF ~sent.result.success
                              THEN DictGet(sent.result, "error", None)
                              ELSE None]]

ProcessForm(data, http) ==
    /\ \E done \in {process_form(data, http)} :
          /\ pstep' = "process_form"
          /\ pin' = [data |-> data, http |-> IF done.requests = <<>> THEN NoHttp ELSE http]
          /\ pout' = done.result
          /\ pposts' = pposts \o done.requests
          /\ trace' = done.calls
    /\ UNCHANGED <<convVars, webVars>>
-----------------------------------------------------------------------------
(* web_app.py: get_conversational_agent, /api/chat/start, /api/chat/message *)

\* the value of the global before an agent is constructed (None); instances
\* are numbered from 1
NoAgent == 0

\* get_conversational_agent, line 29: the thread of request r reads the global
\* and finds an instance or none (OPENAI_API_KEY is set)
CheckAgent(r) ==
    /\ reqs[r].pc = "check"
    /\ reqs' = [reqs EXCEPT ![r].pc =
                    IF conversational_agent = NoAgent THEN "construct" ELSE "return"]
    /\ UNCHANGED <<conversational_agent, agents>>

\* line 33: the thread that found none constructs an instance, with an empty
\* sessions dict, and stores it in the global
ConstructAgent(r) ==
    /\ reqs[r].pc = "construct"
    /\ agents' = Append(agents, EmptyDict)
    /\ conversational_agent' = Len(agents) + 1
    /\ reqs' = [reqs EXCEPT ![r].pc = "return"]

\* line 37: return conversational_agent, the value the global holds now
ReturnAgent(r) ==
    /\ reqs[r].pc = "return"
    /\ reqs' = [reqs EXCEPT ![r].pc = "call", ![r].agent = conversational_agent]
    /\ UNCHANGED <<conversational_agent, agents>>

\* start_chat, lines 181-185: agent.start_conversation() on the instance the
\* thread holds.  The sessions dict after the call, and the JSON returned.
start_chat(store) ==
    LET session_id == Uuid4
    IN [store |-> [sid \in (DOMAIN store) \cup {session_id} |->
                      IF sid = session_id THEN NewSession ELSE store[sid]],
        result |-> [success |-> TRUE,
                    data |-> [session_id |-> session_id,
                              type |-> "greeting",
                              message |-> QuestionMessage("adult_name"),
                              asking_for |-> "adult_name",
                              session_complete |-> FALSE]]]

\* send_chat_message, lines 201-230, on the instance the thread holds: the
\* sessions dict after the call, the POST requests issued, the history entries
\* written, and the JSON returned (a session_id is always sent)
send_chat_message(store, session_id, message, extracted_info, http) ==
    IF Strip(message) = <<>>
    THEN [store |-> store, requests |-> <<>>, appended |-> 0,
          result |-> ErrorResponse("Message is required")]
    ELSE IF session_id \notin DOMAIN store
    THEN [store |-> store, requests |-> <<>>, appended |-> 0,
          result |-> [success |-> TRUE,
                      data |-> [type |-> "error",
                                message |-> SessionNotFound,
                                session_complete |-> TRUE]]]
    ELSE
    LET session_data == store[session_id]
        history == Append(session_data.conversation_history,
                          HistoryEntry("user", UserMessage(Strip(message)), clock))
    IN IF extracted_info.json = "null_extracted_fields"
       THEN \* generate_response raises; caught at line 225
            [store |-> [store EXCEPT ![session_id].conversation_history = history],
             requests |-> <<>>, appended |-> 1,
             result |-> ErrorResponse("Chat error")]
       ELSE
    LET generated == generate_response(session_data, extracted_info, http)
        response == generated.response
    IN [store |-> [store EXCEPT ![session_id] =
                      [collected_data |-> response.data_collected,
                       missing_fields |-> DictGet(response, "missing_fields", <<>>),
                       conversation_history |->
                          Append(history,
                                 HistoryEntry("agent", response.message, clock + 1)),
                       current_step |-> session_data.current_step]],
        requests |-> generated.requests, appended |-> 2,
        result |-> [success |-> TRUE,
                    data |-> DictUpdate(response, [session_id |-> session_id])]]

\* the thread of a /api/chat/start request runs its call
CallStart(r) ==
    /\ reqs[r].pc = "call"
    /\ reqs[r].route = "/api/chat/start"
    /\ \E done \in {start_chat(agents[reqs[r].agent])} :
          /\ agents' = [agents EXCEPT ![reqs[r].agent] = done.store]
          /\ reqs' = [reqs EXCEPT ![r].pc = "done", ![r].result = done.result]
    /\ uuid_count' = uuid_count + 1
    /\ UNCHANGED <<conversational_agent, clock, post_log>>

\* the thread of a /api/chat/message request runs its call
CallMessage(r, extracted_info, http) ==
    /\ reqs[r].pc = "call"
    /\ reqs[r].route = "/api/chat/message"
    /\ \E done \in {send_chat_message(agents[reqs[r].agent], reqs[r].session_id,
                                       reqs[r].message, extracted_info, http)} :
          /\ agents' = [agents EXCEPT ![reqs[r].agent] = done.store]
          /\ reqs' = [reqs EXCEPT ![r].pc = "done", ![r].result = done.result]
          /\ clock' = clock + done.appended
          /\ post_log' = post_log \o Logged(reqs[r].session_id, done.requests)
    /\ UNCHANGED <<conversational_agent, uuid_count>>

\* a request as it is received: its thread is about to call
\* get_conversational_agent
Received(route, session_id, message) ==
    [route |-> route, pc |-> "check", agent |-> NoAgent,
     session_id |-> session_id, message |-> message, result |-> NoResponse]

\* the session ids that /api/chat/start has returned so far
ReturnedSessionIds ==
    {reqs[r].result.data.session_id :
        r \in {q \in DOMAIN reqs : reqs[q].route = "/api/chat/start"
                                      /\ reqs[q].pc = "done"}}

-----------------------------------------------------------------------------
(* Specification Spec: conversations over several sessions *)

InitPipeline ==
    /\ pstep = "idle"
    /\ pin = EmptyDict
    /\ pout = EmptyDict
    /\ pposts = <<>>

\* web_app.py lines 10-11: no agent yet; no request received
InitWeb ==
    /\ conversational_agent = NoAgent
    /\ agents = <<>>
    /\ reqs = <<>>

Init == InitConversation /\ InitPipeline /\ trace = <<>> /\ InitWeb

\* continue_conversation calls made so far, on known and unknown sessions
TurnsTaken == turn.calls

\* the session ids a caller may present: 0 was never issued
SessionIds == 0..MaxSessions

\* an answer in which every key is a schema field reported above the threshold
IsConfident(a) ==
    \A k \in DOMAIN a.extracted_fields :
        /\ k \in FieldNames
        /\ DictGet(a.confidence, k, 0) > ConfidenceThreshold

\* the answer that reports every field of ef above the threshold
ConfidentInfo(ef) ==
    [json |-> "object", extracted_fields |-> ef,
     confidence |-> [k \in DOMAIN ef |-> HighConfidence]]

\* the answers of Spec: one schema field, or the name and the email address
\* together, each above the threshold; nothing; extracted_fields null
ConfidentAnswers ==
    UNION {{ConfidentInfo([k \in {f} |-> v]) : v \in ExtractValues[f]} : f \in FieldNames}
    \cup {ConfidentInfo([adult_name |-> n, email_address |-> e]) :
             n \in ExtractValues["adult_name"], e \in ExtractValues["email_address"]}
    \cup {EmptyInfo, NullFieldsInfo}

\* the outcome of the POST matters only to a turn that submits
PostOutcomes(session_id, extracted_info) ==
    IF /\ extracted_info.json = "object"
       /\ generate_response(sessions[session_id], extracted_info,
                            CHOOSE h \in HttpOutcomes : TRUE).requests # <<>>
    THEN HttpOutcomes
    ELSE {CHOOSE h \in HttpOutcomes : TRUE}

StartStep ==
    /\ uuid_count < MaxSessions
    /\ start_conversation
    /\ UNCHANGED heard

UnknownStep ==
    /\ TurnsTaken < MaxTurns
    /\ \E session_id \in SessionIds, user_input \in UserInputs :
           /\ continue_unknown(session_id, user_input)
           /\ UNCHANGED heard

RaiseStep ==
    /\ TurnsTaken < MaxTurns
    /\ \E session_id \in DOMAIN sessions, user_input \in UserInputs,
          extracted_info \in ConfidentAnswers :
           /\ continue_raises(session_id, user_input, extracted_info)
           /\ UNCHANGED heard

TurnStep ==
    /\ TurnsTaken < MaxTurns
    /\ \E session_id \in DOMAIN sessions, user_input \in UserInputs,
          extracted_info \in ConfidentAnswers :
           \E http \in PostOutcomes(session_id, extracted_info) :
               /\ continue_turn(session_id, user_input, extracted_info, http)
               /\ UNCHANGED heard

Next == StartStep \/ UnknownStep \/ RaiseStep \/ TurnStep

Spec == Init /\ [][Next]_vars

-----------------------------------------------------------------------------
(* Specification SpecTurn: single turns, with every answer the model can give *)

TurnAnswers == ExtractResults(MaxExtracted)

\* The effect of an answer on the session is that of the confident schema
\* fields in it: a run goes on after an answer of at most one such field (or
\* one that made generate_response raise), and ends with any other answer.
MayGoOn ==
    /\ IsConfident(heard)
    /\ Cardinality(DOMAIN heard.extracted_fields) <= 1

ObservedStart ==
    /\ uuid_count < MaxTurnSessions
    /\ start_conversation
    /\ UNCHANGED heard

ObservedUnknown ==
    /\ TurnsTaken < MaxTurnTurns
    /\ \E session_id \in SessionIds, user_input \in UserInputs :
           /\ continue_unknown(session_id, user_input)
           /\ UNCHANGED heard

ObservedRaise ==
    /\ TurnsTaken < MaxTurnTurns
    /\ MayGoOn
    /\ \E session_id \in DOMAIN sessions, user_input \in UserInputs,
          extracted_info \in TurnAnswers :
           /\ continue_raises(session_id, user_input, extracted_info)
           /\ heard' = extracted_info

ObservedTurn ==
    /\ TurnsTaken < MaxTurnTurns
    /\ MayGoOn
    /\ \E session_id \in DOMAIN sessions, user_input \in UserInputs,
          extracted_info \in TurnAnswers :
           \E http \in PostOutcomes(session_id, extracted_info) :
               /\ continue_turn(session_id, user_input, extracted_info, http)
               /\ heard' = extracted_info

NextTurn == ObservedStart \/ ObservedUnknown \/ ObservedRaise \/ ObservedTurn

SpecTurn == Init /\ [][NextTurn]_vars

-----------------------------------------------------------------------------
(* Specification SpecPipeline: one call of a WebhookAgent entry point *)

AnyHttp == CHOOSE h \in HttpOutcomes : TRUE

\* the entry points are called once, on a fresh agent
ValidateStep ==
    /\ pstep = "idle"
    /\ \E form_data \in RawRecords : ValidateFormData(form_data)

ProcessUserInputStep ==
    /\ pstep = "idle"
    /\ \E llm \in LlmOutcomes :
          \E http \in IF process_user_input(llm, AnyHttp).requests # <<>>
                       THEN HttpOutcomes ELSE {AnyHttp} :
              ProcessUserInput(llm, http)

ProcessFormStep ==
    /\ pstep = "idle"
    /\ \E data \in StructuredRequests :
          \E http \in IF process_form(data, AnyHttp).requests # <<>>
                       THEN HttpOutcomes ELSE {AnyHttp} :
              ProcessForm(data, http)

NextPipeline == ValidateStep \/ ProcessUserInputStep \/ ProcessFormStep

SpecPipeline == Init /\ [][NextPipeline]_vars

-----------------------------------------------------------------------------
(* Specification SpecSubmit: one call of send_webhook, of either agent *)

\* bodies handed to send_webhook: validated records and collected_data dicts
SubmitBodies ==
    {DictWithout(_validate_form_data(d), {"valid", "error"}) :
        d \in {r \in RawRecords : _validate_form_data(r)["valid"]}}
    \cup {[adult_name |-> <<"Ann">>, email_address |-> <<"a@x">>,
           signup_type |-> <<"self">>]}

\* /api/test-webhook, cli.py --test: WebhookAgent.send_webhook called directly
SubmitWebhookAgent ==
    /\ pstep = "idle"
    /\ \E form_data \in SubmitBodies, http \in HttpOutcomes :
        /\ \E sent \in {WebhookAgent_send_webhook(form_data, http)} :
              /\ pstep' = "WebhookAgent.send_webhook"
              /\ pin' = [form_data |-> form_data, http |-> http]
              /\ pout' = sent.result
              /\ pposts' = pposts \o sent.requests
              /\ trace' = PostCalls(sent.requests)
        /\ UNCHANGED <<convVars, webVars>>

\* ConversationalAgent.send_webhook called directly
SubmitConversationalAgent ==
    /\ pstep = "idle"
    /\ \E form_data \in SubmitBodies, http \in HttpOutcomes :
        /\ \E sent \in {send_webhook(form_data, http)} :
              /\ pstep' = "ConversationalAgent.send_webhook"
              /\ pin' = [form_data |-> form_data, http |-> http]
              /\ pout' = sent.result
              /\ post_log' = post_log \o Logged(0, sent.requests)
              /\ trace' = PostCalls(sent.requests)
        /\ UNCHANGED <<sessions, uuid_count, clock, turn, heard, pposts, webVars>>

NextSubmit == SubmitWebhookAgent \/ SubmitConversationalAgent

SpecSubmit == Init /\ [][NextSubmit]_vars

-----------------------------------------------------------------------------
(* Specification SpecCalls: the calls that reach the model and the webhook *)

\* The two agents share no state, and a run exercises one of them: turns of
\* conversations, or one process_user_input call.
ConversationCalls ==
    /\ pstep = "idle"
    /\ (StartStep \/ UnknownStep \/ RaiseStep \/ TurnStep)

SingleShotCall ==
    /\ turn.op = "init"
    /\ ProcessUserInputStep

NextCalls == ConversationCalls \/ SingleShotCall

SpecCalls == Init /\ [][NextCalls]_vars

-----------------------------------------------------------------------------
(* Specification SpecServer: concurrent chat requests to the web application *)

\* what the model answers to a chat message
ServerAnswers ==
    {EmptyInfo, NullFieldsInfo, ConfidentInfo([adult_name |-> <<"Ann">>])}

\* the text of a chat message: a word, or white space only
ServerMessages == {<<"hello">>, <<" ">>}

serverUnchanged == <<sessions, turn, heard, trace, pipeVars>>

\* a client posts /api/chat/start
ReceiveStart ==
    /\ Len(reqs) < MaxRequests
    /\ reqs' = Append(reqs, Received("/api/chat/start", 0, <<>>))
    /\ UNCHANGED <<conversational_agent, agents, uuid_count, clock, post_log,
                   serverUnchanged>>

\* a client posts /api/chat/message with a session_id that /api/chat/start
\* returned to it
ReceiveMessage ==
    /\ Len(reqs) < MaxRequests
    /\ \E session_id \in ReturnedSessionIds, message \in ServerMessages :
          reqs' = Append(reqs, Received("/api/chat/message", session_id, message))
    /\ UNCHANGED <<conversational_agent, agents, uuid_count, clock, post_log,
                   serverUnchanged>>

\* one thread per request; a thread can be switched out between any two
\* accesses of the global
CheckStep ==
    \E r \in DOMAIN reqs :
        CheckAgent(r) /\ UNCHANGED <<uuid_count, clock, post_log, serverUnchanged>>

ConstructStep ==
    \E r \in DOMAIN reqs :
        ConstructAgent(r) /\ UNCHANGED <<uuid_count, clock, post_log, serverUnchanged>>

ReturnStep ==
    \E r \in DOMAIN reqs :
        ReturnAgent(r) /\ UNCHANGED <<uuid_count, clock, post_log, serverUnchanged>>

CallStartStep ==
    \E r \in DOMAIN reqs : CallStart(r) /\ UNCHANGED serverUnchanged

CallMessageStep ==
    \E r \in DOMAIN reqs, extracted_info \in ServerAnswers :
        CallMessage(r, extracted_info, AnyHttp) /\ UNCHANGED serverUnchanged

NextServer ==
    \/ ReceiveStart
    \/ ReceiveMessage
    \/ CheckStep
    \/ ConstructStep
    \/ ReturnStep
    \/ CallStartStep
    \/ CallMessageStep

SpecServer == Init /\ [][NextServer]_vars

-----------------------------------------------------------------------------
(* Specification SpecAnswered: the user answers the question that was asked *)

\* the field the agent's last response to the session asked for ("none" after
\* the completion message)
AskedFor(session) ==
    IF session.conversation_history = <<>>
    THEN "adult_name"
    ELSE session.conversation_history[Len(session.conversation_history)].message.question

\* the extractor finds in the user's reply the field that was asked for, and
\* reports it above the threshold
AnswersTo(field) ==
    {ConfidentInfo([k \in {field} |-> v]) : v \in ExtractValues[field]}

\* the users converse one after the other, on the same agent (conversations
\* that interleave are those of Spec)
AnsweredStart ==
    /\ uuid_count < MaxAnswered
    /\ \A session_id \in DOMAIN sessions : AskedFor(sessions[session_id]) = "none"
    /\ start_conversation
    /\ UNCHANGED heard

\* the user of session session_id replies to the question
AnsweredTurn(session_id) ==
    /\ session_id \in DOMAIN sessions
    /\ AskedFor(sessions[session_id]) \in FieldNames
    /\ \E user_input \in UserInputs,
          extracted_info \in AnswersTo(AskedFor(sessions[session_id])) :
           \E http \in PostOutcomes(session_id, extracted_info) :
               /\ continue_turn(session_id, user_input, extracted_info, http)
               /\ UNCHANGED heard

AnsweredTurns == \E session_id \in 1..MaxAnswered : AnsweredTurn(session_id)

NextAnswered == AnsweredStart \/ AnsweredTurns

\* while a question is open, some user who was asked one replies
SpecAnswered ==
    /\ Init
    /\ [][NextAnswered]_vars
    /\ WF_vars(AnsweredTurns)

-----------------------------------------------------------------------------
(* Properties of the Conversation Engine *)

Range(seq) == {seq[i] : i \in DOMAIN seq}

\* POST requests issued for a session so far
PostsOf(session_id) ==
    Cardinality({i \in DOMAIN post_log : post_log[i].session_id = session_id})

IsTurn == turn.op = "continue_conversation"

\* C1: a session is submitted exactly once, on the turn that empties
\* missing_fields, and a turn on a session already submitted calls neither the
\* extractor nor send_webhook.
C1_SubmittedOnceThenClosed ==
    \A sid \in DOMAIN sessions :
        /\ PostsOf(sid) = IF /\ sessions[sid].missing_fields = <<>>
                             /\ sessions[sid].conversation_history # <<>>
                          THEN 1 ELSE 0
        /\ (IsTurn /\ turn.session_id = sid /\ PostsOf(sid) - turn.http_posts >= 1)
              => (turn.llm_requests = 0 /\ turn.http_posts = 0)

NonEmptyText(v) == v # None /\ v # <<>>

\* what a successful _validate_form_data produces
ValidatedRecordShape(r) ==
    /\ DOMAIN r = FieldNames
    /\ r.signup_type \in {<<"self">>, <<"child">>}
    /\ NonEmptyText(r.adult_name)
    /\ NonEmptyText(r.email_address)
    /\ r.signup_type = <<"self">> => r.child_name = None
    /\ r.signup_type = <<"child">> => NonEmptyText(r.child_name)

\* C2: every body posted by a production path (conversation completion,
\* process_user_input, structured /api/process) has the shape of a validated
\* record: four keys, signup_type self or child, non-empty free text,
\* child_name null for self.
C2_OnlyValidatedRecordsPosted ==
    /\ \A i \in DOMAIN post_log : ValidatedRecordShape(post_log[i].json)
    /\ pstep \in {"process_user_input", "process_form"}
          => \A i \in DOMAIN pposts : ValidatedRecordShape(pposts[i])

\* schema fields of the last answer at or below the threshold, or without score
LowFields ==
    {f \in (DOMAIN heard.extracted_fields) \cap FieldNames :
        DictGet(heard.confidence, f, 0) <= ConfidenceThreshold}

\* schema fields of the last answer above the threshold
HighFields ==
    {f \in (DOMAIN heard.extracted_fields) \cap FieldNames :
        f \in DOMAIN heard.confidence /\ heard.confidence[f] > ConfidenceThreshold}

ObservedTurnDone == IsTurn /\ turn.llm_requests = 1 /\ heard.json = "object"

\* the gate on collected_data, for the step into the primed state
GateOnCollected ==
    LET before == sessions[turn'.session_id].collected_data
        after == sessions'[turn'.session_id].collected_data
    IN /\ \A f \in LowFields' :
            /\ (f \in DOMAIN after) = (f \in DOMAIN before)
            /\ f \in DOMAIN before => after[f] = before[f]
       /\ \A f \in HighFields' :
            f \in DOMAIN after /\ after[f] = heard'.extracted_fields[f]

ChildNameNotRequired(collected_data) ==
    /\ "signup_type" \in DOMAIN collected_data
    /\ collected_data["signup_type"] # <<"child">>

C4_SessionIsolation ==
    [][\A other \in DOMAIN sessions :
          turn'.session_id # other =>
             /\ other \in DOMAIN sessions'
             /\ sessions'[other] = sessions[other]]_vars

\* a turn that changed session 1 while session 2 holds data of its own
C4_Witness ==
    /\ IsTurn
    /\ turn.session_id = 1
    /\ 2 \in DOMAIN sessions
    /\ DOMAIN sessions[1].collected_data # {}
    /\ DOMAIN sessions[2].collected_data # {}
    /\ sessions[1].collected_data # sessions[2].collected_data

\* C5: a turn on an unknown session_id returns the terminal error response,
\* calls neither the extractor nor the webhook, and leaves the session store
\* as it was.
C5_UnknownSession ==
    [][(turn'.op = "continue_conversation" /\ turn'.session_id \notin DOMAIN sessions)
          => /\ turn'.response.type = "error"
             /\ turn'.response.session_complete
             /\ turn'.llm_requests = 0
             /\ turn'.http_posts = 0
             /\ sessions' = sessions
             /\ post_log' = post_log]_vars

\* the error response, returned while a session with collected data exists
C5_Witness ==
    /\ IsTurn
    /\ turn.response.type = "error"
    /\ turn.session_id \notin DOMAIN sessions
    /\ \E sid \in DOMAIN sessions : DOMAIN sessions[sid].collected_data # {}

-----------------------------------------------------------------------------
(* Properties of the Validator, the Submitter and the Single-Shot Pipeline *)

IsValidation == pstep = "_validate_form_data"

SuppliedAdultName(form_data) ==
    \/ Truthy(DictGet(form_data, "adult_name", None))
    \/ Truthy(DictGet(form_data, "name_of_requestor", None))

SuppliedEmail(form_data) == Truthy(DictGet(form_data, "email_address", None))

\* a signup_type, or the legacy flag standing in for it
SuppliedSignupType(form_data) ==
    \/ Truthy(DictGet(form_data, "signup_type", None))
    \/ "request_on_behalf" \in DOMAIN form_data

SuppliedChildName(form_data) ==
    \/ Truthy(DictGet(form_data, "child_name", None))
    \/ Truthy(DictGet(form_data, "name_of_child", None))

\* the first required field, in schema order, that the input does not supply
FirstMissing(form_data) ==
    IF ~SuppliedAdultName(form_data) THEN "adult_name"
    ELSE IF ~SuppliedEmail(form_data) THEN "email_address"
    ELSE IF ~SuppliedSignupType(form_data) THEN "signup_type"
    ELSE IF ResolveSignupType(form_data) = <<"child">> /\ ~SuppliedChildName(form_data)
         THEN "child_name"
    ELSE "none"

\* the reason string that names each field
ErrorNaming ==
    [adult_name |-> <<"Adult name is required">>,
     email_address |-> <<"Email address is required">>,
     signup_type |-> <<"Signup type must be 'self' or 'child'">>,
     child_name |-> <<"Child name is required when signup type is 'child'">>]

\* C6: when a required field is missing, validation fails with the error of
\* the first missing field in schema order, and the result carries no field.
C6_ValidatorShortCircuit ==
    (IsValidation /\ FirstMissing(pin) # "none")
        => /\ pout["valid"] = FALSE
           /\ pout["error"] = ErrorNaming[FirstMissing(pin)]
           /\ DOMAIN pout = {"valid", "error"}

\* the adult name came under its legacy key, email and signup type are both
\* missing: the email is the one named
C6_Witness ==
    /\ IsValidation
    /\ "adult_name" \notin DOMAIN pin
    /\ SuppliedAdultName(pin)
    /\ ~SuppliedEmail(pin)
    /\ ~SuppliedSignupType(pin)
    /\ pout["error"] = ErrorNaming["email_address"]

\* C7: with adult name and email present, "child" without a child name fails,
\* "self" succeeds with child_name null whatever name was supplied; every
\* success carries all four schema keys.
C7_ConditionalChildName ==
    IsValidation =>
        /\ (/\ SuppliedAdultName(pin) /\ SuppliedEmail(pin)
            /\ ResolveSignupType(pin) = <<"child">>
            /\ ~SuppliedChildName(pin))
              => ~pout["valid"]
        /\ (/\ SuppliedAdultName(pin) /\ SuppliedEmail(pin)
            /\ ResolveSignupType(pin) = <<"self">>)
              => /\ pout["valid"]
                 /\ "child_name" \in DOMAIN pout
                 /\ pout["child_name"] = None
        /\ pout["valid"] => FieldNames \subseteq DOMAIN pout

\* a child name supplied next to "self" and nulled in the output
C7_Witness ==
    /\ IsValidation
    /\ ResolveSignupType(pin) = <<"self">>
    /\ SuppliedChildName(pin)
    /\ pout["valid"]
    /\ pout["child_name"] = None

LegacyKeys == {"name_of_requestor", "homeless", "request_on_behalf", "name_of_child"}

\* str.lower() of the flag values in use
Lower(v) == IF v = <<"Y">> THEN <<"y">> ELSE v

\* a record in the legacy names whose flag is one of the yes/no tokens
IsLegacyRecord(r) ==
    /\ DOMAIN r \subseteq LegacyKeys \cup {"email_address"}
    /\ "request_on_behalf" \in DOMAIN r
          => Lower(r["request_on_behalf"]) \in {<<"y">>, <<"yes">>, <<"n">>, <<"no">>}

\* the same record in the current names
CurrentEquivalent(r) ==
    LET renamed == [name_of_requestor |-> "adult_name",
                    request_on_behalf |-> "signup_type",
                    name_of_child |-> "child_name",
                    email_address |-> "email_address"]
        Source(k) == CHOOSE old \in DOMAIN renamed : renamed[old] = k
    IN [k \in {renamed[old] : old \in (DOMAIN r) \cap (DOMAIN renamed)} |->
           IF k = "signup_type"
           THEN IF Lower(r["request_on_behalf"]) \in {<<"y">>, <<"yes">>}
                THEN <<"child">> ELSE <<"self">>
           ELSE r[Source(k)]]

\* C8: a record in the legacy field names and the equivalent record in the
\* current field names validate to identical results.
C8_AliasIdempotence ==
    (IsValidation /\ IsLegacyRecord(pin))
        => pout = _validate_form_data(CurrentEquivalent(pin))

IsSubmit == pstep \in {"WebhookAgent.send_webhook", "ConversationalAgent.send_webhook"}

\* the bodies of the POST requests the called agent has issued
BodiesPosted ==
    IF pstep = "ConversationalAgent.send_webhook"
    THEN [i \in DOMAIN post_log |-> post_log[i].json]
    ELSE pposts

\* C9: send_webhook of either agent: success exactly for status 200, status
\* and body kept for any response, error text kept for a transport failure,
\* a result in every case, one POST, sent_data the body passed in.
C9_OutcomeMapping ==
    IsSubmit =>
        /\ "success" \in DOMAIN pout
        /\ pout["success"] = (pin.http.kind = "response" /\ pin.http.status_code = 200)
        /\ pin.http.kind = "response"
              => /\ pout["status_code"] = pin.http.status_code
                 /\ pout["response_text"] = pin.http.text
        /\ pin.http.kind = "exception" => pout["error"] = pin.http.error
        /\ pout["sent_data"] = pin.form_data
        /\ BodiesPosted = <<pin.form_data>>

\* the conversational agent's send_webhook answered by a 201
C9_Witness ==
    /\ pstep = "ConversationalAgent.send_webhook"
    /\ pin.http.kind = "response"
    /\ pin.http.status_code = 201
    /\ ~pout["success"]
    /\ pout["status_code"] = 201

\* process_user_input ran and the validation of line 246 succeeded
ValidationSucceeded ==
    /\ pstep = "process_user_input"
    /\ DOMAIN collect_form_data(pin.llm) # {}
    /\ _validate_form_data(collect_form_data(pin.llm))["valid"]

\* C10: when validation succeeds, process_user_input posts the validated
\* record once and returns the webhook's success flag with the record (free of
\* valid/error) and the whole webhook result, also for a failed submission.
C10_SubmitBranch ==
    ValidationSucceeded =>
        LET record == DictWithout(_validate_form_data(collect_form_data(pin.llm)),
                                  {"valid", "error"})
        IN /\ pposts = <<record>>
           /\ DOMAIN pout = {"success", "form_data", "webhook_result"}
           /\ pout["form_data"] = record
           /\ DOMAIN pout["form_data"] = FieldNames
           /\ pout["webhook_result"]["sent_data"] = record
           /\ pout["success"] = pout["webhook_result"]["success"]
           /\ pout["success"] = (pin.http.kind = "response" /\ pin.http.status_code = 200)
           /\ pin.http.kind = "response"
                 => pout["webhook_result"]["status_code"] = pin.http.status_code
           /\ pin.http.kind = "exception"
                 => pout["webhook_result"]["error"] = pin.http.error

\* a submission that failed in transport, reported with record and outcome
C10_Witness ==
    /\ ValidationSucceeded
    /\ pin.http.kind = "exception"
    /\ ~pout["success"]
    /\ "form_data" \in DOMAIN pout
    /\ "error" \in DOMAIN pout["webhook_result"]

-----------------------------------------------------------------------------
(* Properties of process_user_input *)

IsProcessUserInput == pstep = "process_user_input"

\* the model call returned, and the parse produced at least one field that the
\* validator does not accept
RawExtractionInvalid ==
    /\ IsProcessUserInput
    /\ pin.llm.kind # "exception"
    /\ DOMAIN pin.llm.data # {}
    /\ ~_validate_form_data(pin.llm.data)["valid"]

\* C11: when the extracted fields fail validation, process_user_input returns
\* success = false with the validator's reason for the raw extraction,
\* attaches the raw extracted field map as extracted_data, and posts nothing.
C11_ValidationFailureReported ==
    RawExtractionInvalid =>
        /\ pout["success"] = FALSE
        /\ pout["error"] = _validate_form_data(pin.llm.data)["error"]
        /\ pposts = <<>>
        /\ "extracted_data" \in DOMAIN pout
        /\ DOMAIN pout["extracted_data"] = DOMAIN pin.llm.data
        /\ pout["extracted_data"] = pin.llm.data

\* the model call raised, or the content held no JSON object and the line
\* scanner found no field in it
NoFieldsExtracted ==
    /\ IsProcessUserInput
    /\ \/ pin.llm.kind = "exception"
       \/ pin.llm.kind = "text" /\ DOMAIN pin.llm.data = {}

ExtractionError == <<"Failed to extract form data from user input">>

\* C12: when the model call fails or neither parse strategy yields a field,
\* collect_form_data returns an empty dict and process_user_input fails with
\* the extraction error (not a validation error) and posts nothing.
C12_EmptyExtraction ==
    NoFieldsExtracted =>
        /\ DOMAIN collect_form_data(pin.llm) = {}
        /\ DOMAIN pout = {"success", "error"}
        /\ pout["success"] = FALSE
        /\ pout["error"] = ExtractionError
        /\ pposts = <<>>

\* the record a legacy scenario expects: the extracted fields under their
\* legacy names, name_of_child null when the request is not on behalf
ExpectedLegacy(extracted) ==
    DictUpdate([name_of_child |-> None], extracted)

\* C13: process_user_input on a legacy scenario (requestor, homelessness and
\* on-behalf flags, child's name when on behalf) returns form_data keyed by the
\* legacy names, name_of_child null for flag n, reports the webhook's success,
\* and posts that body exactly once.
C13_LegacyScenarios ==
    (IsProcessUserInput /\ pin.llm.kind = "json" /\ pin.llm.data \in LegacyScenarios)
        => /\ "form_data" \in DOMAIN pout
           /\ pout["form_data"] = ExpectedLegacy(pin.llm.data)
           /\ pposts = <<ExpectedLegacy(pin.llm.data)>>
           /\ pout["success"] = (pin.http.kind = "response" /\ pin.http.status_code = 200)

-----------------------------------------------------------------------------
(* Properties of whole conversations *)

\* the step is a continue_conversation call on session sid
TurnOn(sid) ==
    /\ turn'.op = "continue_conversation"
    /\ turn'.session_id = sid
    /\ sid \in DOMAIN sessions
    /\ turn'.calls = turn.calls + 1

NameOnly == [adult_name |-> <<"Ann">>]

NameAndSelf == [adult_name |-> <<"Ann">>, signup_type |-> <<"self">>]

NameSelfAndEmail ==
    [adult_name |-> <<"Ann">>, signup_type |-> <<"self">>, email_address |-> <<"a@x">>]

\* first turn of the scenario: a fresh session hears the adult name
NameTurn(sid) ==
    /\ TurnOn(sid)
    /\ sessions[sid] = NewSession
    /\ sessions'[sid].collected_data = NameOnly

\* second turn: the session that heard only the name hears signup type self
SelfTurn(sid) ==
    /\ TurnOn(sid)
    /\ Len(sessions[sid].conversation_history) = 2
    /\ sessions[sid].collected_data = NameOnly
    /\ sessions'[sid].collected_data = NameAndSelf

\* third turn: the session that heard the name, then self, hears the email
EmailTurn(sid) ==
    /\ TurnOn(sid)
    /\ Len(sessions[sid].conversation_history) = 4
    /\ sessions[sid].conversation_history[2].message = QuestionMessage("email_address")
    /\ sessions[sid].collected_data = NameAndSelf
    /\ sessions'[sid].collected_data = NameSelfAndEmail

StillAsking ==
    /\ turn'.response.type = "question"
    /\ ~turn'.response.session_complete
    /\ turn'.http_posts = 0
    /\ post_log' = post_log

\* C14: in the conversation adult name, then signup type self, then email
\* address (one confident field per turn), turns 1 and 2 return a question and
\* post nothing, and turn 3 returns the completion with exactly one POST, the
\* only one of the session.
C14_ThreeTurnScenario ==
    [][\A sid \in DOMAIN sessions :
          /\ NameTurn(sid) => StillAsking
          /\ SelfTurn(sid) => StillAsking
          /\ EmailTurn(sid) =>
                /\ turn'.response.type = "completion"
                /\ turn'.response.session_complete
                /\ turn'.http_posts = 1
                /\ PostsOf(sid)' = 1
                /\ post_log'[Len(post_log')] =
                      [session_id |-> sid, json |-> NameSelfAndEmail]]_vars

\* the third turn of the scenario has completed the session
C14_Witness ==
    /\ IsTurn
    /\ turn.session_id \in DOMAIN sessions
    /\ turn.response.type = "completion"
    /\ LET session == sessions[turn.session_id]
       IN /\ Len(session.conversation_history) = 6
          /\ session.conversation_history[2].message = QuestionMessage("email_address")
          /\ session.conversation_history[4].message = QuestionMessage("email_address")
          /\ session.collected_data = NameSelfAndEmail
    /\ PostsOf(turn.session_id) = 1

\* C15: every collected_data handed to send_webhook holds adult_name,
\* email_address and signup_type, and holds child_name whenever its
\* signup_type is "child", whatever the sequence of turns.
C15_CompleteWhenSubmitted ==
    \A i \in DOMAIN post_log :
        LET collected_data == post_log[i].json
        IN /\ {"adult_name", "email_address", "signup_type"} \subseteq DOMAIN collected_data
           /\ collected_data["signup_type"] = <<"child">>
                 => "child_name" \in DOMAIN collected_data

-----------------------------------------------------------------------------
(* Properties of the calls made by one operation *)

\* how often the last operation made the call
CountOf(call) == Cardinality({i \in DOMAIN trace : trace[i] = call})

\* every occurrence of later in the trace has an occurrence of earlier before it
Precedes(earlier, later) ==
    \A i \in DOMAIN trace :
        trace[i] = later => \E j \in 1..(i - 1) : trace[j] = earlier

\* C16: one process_user_input call, and one continue_conversation call,
\* issues at most one completion request and at most one POST; a POST comes
\* after the completion request; in process_user_input a POST comes after the
\* validator has run, and only when the extracted fields validated.
C16_OneExtractionOnePost ==
    (IsTurn \/ IsProcessUserInput) =>
        /\ CountOf(LlmCall) <= 1
        /\ CountOf(PostCall) <= 1
        /\ Precedes(LlmCall, PostCall)
        /\ IsTurn =>
              /\ turn.llm_requests = CountOf(LlmCall)
              /\ turn.http_posts = CountOf(PostCall)
        /\ IsProcessUserInput =>
              /\ Len(pposts) = CountOf(PostCall)
              /\ Precedes(ValidateCall, PostCall)
              /\ CountOf(PostCall) > 0 =>
                    /\ pin.llm.kind # "exception"
                    /\ _validate_form_data(pin.llm.data)["valid"]

\* a process_user_input call that went all the way: one completion request,
\* the validator, then one POST, which failed
C16_Witness ==
    /\ IsProcessUserInput
    /\ trace = <<LlmCall, ValidateCall, ValidateCall, PostCall>>
    /\ Len(pposts) = 1
    /\ ~pout["success"]

\* the history is a sequence of exchanges: a user entry, then the agent entry
Exchanges(history) ==
    /\ Len(history) % 2 = 0
    /\ \A i \in DOMAIN history :
          history[i].type = IF i % 2 = 1 THEN "user" ELSE "agent"

\* C17: continue_conversation and process_user_input return a structured
\* result for every outcome of the model call; no exception escapes, and no
\* session is left with a user entry that has no agent entry after it.
C17_StructuredResultAlways ==
    /\ IsTurn => turn.response.type \in {"question", "completion", "error"}
    /\ IsProcessUserInput => "success" \in DOMAIN pout
    /\ \A sid \in DOMAIN sessions : Exchanges(sessions[sid].conversation_history)

\* the order of the steps
StepRank == [greeting |-> 0, collecting |-> 1, complete |-> 2]

\* a user turn of the session has been processed: the agent has answered it
TurnProcessed(session) ==
    \E i \in DOMAIN session.conversation_history :
        session.conversation_history[i].type = "agent"

\* C18: current_step is "greeting" for a session without turns, "collecting"
\* once a user turn has been processed and fields are still missing,
\* "complete" once missing_fields is empty, and it never moves backwards.
C18_CurrentStepMachine ==
    [][\A sid \in DOMAIN sessions' :
          LET session == sessions'[sid]
          IN /\ session.conversation_history = <<>>
                   => session.current_step = "greeting"
             /\ (TurnProcessed(session) /\ session.missing_fields # <<>>)
                   => session.current_step = "collecting"
             /\ (TurnProcessed(session) /\ session.missing_fields = <<>>)
                   => session.current_step = "complete"
             /\ sid \in DOMAIN sessions
                   => StepRank[session.current_step]
                         >= StepRank[sessions[sid].current_step]]_vars

\* the step is a continue_conversation call, on a known or unknown session
IsTurnStep ==
    /\ turn'.op = "continue_conversation"
    /\ turn'.calls = turn.calls + 1

\* after is before with the user entry and then the agent entry of the call
AppendedExchange(before, after) ==
    /\ Len(after) = Len(before) + 2
    /\ SubSeq(after, 1, Len(before)) = before
    /\ LET user == after[Len(after) - 1]
           agent == after[Len(after)]
       IN /\ DOMAIN user = {"type", "message", "timestamp"}
          /\ DOMAIN agent = {"type", "message", "timestamp"}
          /\ user.type = "user"
          /\ user.message = UserMessage(turn'.user_input)
          /\ agent.type = "agent"
          /\ agent.message = turn'.response.message

IsPrefix(before, after) ==
    /\ Len(before) <= Len(after)
    /\ SubSeq(after, 1, Len(before)) = before

\* C19: every continue_conversation call, whatever its outcome (question,
\* completion, error such as "Session not found"), appends the user entry and
\* then the agent entry to the conversation_history of the session it names;
\* and no step alters, reorders or removes an entry of any history.
C19_HistoryAppended ==
    [][/\ IsTurnStep =>
             /\ turn'.session_id \in DOMAIN sessions'
             /\ AppendedExchange(
                    IF turn'.session_id \in DOMAIN sessions
                    THEN sessions[turn'.session_id].conversation_history
                    ELSE <<>>,
                    sessions'[turn'.session_id].conversation_history)
       /\ \A sid \in DOMAIN sessions :
             /\ sid \in DOMAIN sessions'
             /\ IsPrefix(sessions[sid].conversation_history,
                         sessions'[sid].conversation_history)]_vars

-----------------------------------------------------------------------------
(* Properties of the validator's coercions *)

FreeTextFields == {"adult_name", "email_address", "child_name"}

\* a string of whitespace characters, and at least one
WhitespaceOnly(v) == v # None /\ v # <<>> /\ Strip(v) = <<>>

\* the value the validator reads for each free-text field (current key, else
\* the legacy key)
ReadAdultName(form_data) ==
    PyOr(DictGet(form_data, "adult_name", None),
         DictGet(form_data, "name_of_requestor", None))

ReadChildName(form_data) ==
    PyOr(DictGet(form_data, "child_name", None),
         DictGet(form_data, "name_of_child", None))

\* C20: the validator strips adult_name, email_address and child_name and
\* requires them non-empty after stripping: a whitespace-only value is
\* rejected with the failure naming its field, and no successful record holds
\* an empty or unstripped string.
C20_FreeTextStripped ==
    IsValidation =>
        /\ pout["valid"] =>
              \A f \in FreeTextFields :
                  pout[f] # None => (pout[f] # <<>> /\ Strip(pout[f]) = pout[f])
        /\ WhitespaceOnly(ReadAdultName(pin)) =>
              (~pout["valid"] /\ pout["error"] = ErrorNaming["adult_name"])
        /\ (/\ SuppliedAdultName(pin)
            /\ ~WhitespaceOnly(ReadAdultName(pin))
            /\ WhitespaceOnly(DictGet(pin, "email_address", None))) =>
              (~pout["valid"] /\ pout["error"] = ErrorNaming["email_address"])
        /\ (/\ SuppliedAdultName(pin)
            /\ ~WhitespaceOnly(ReadAdultName(pin))
            /\ SuppliedEmail(pin)
            /\ ~WhitespaceOnly(DictGet(pin, "email_address", None))
            /\ ResolveSignupType(pin) = <<"child">>
            /\ WhitespaceOnly(ReadChildName(pin))) =>
              (~pout["valid"] /\ pout["error"] = ErrorNaming["child_name"])

-----------------------------------------------------------------------------
(* Properties of the validator's signup type *)

\* the validator reached the signup type: name and email were supplied
ReachedSignupType == IsValidation /\ SuppliedAdultName(pin) /\ SuppliedEmail(pin)

\* the input carries the legacy flag and no signup_type key
OnlyLegacyFlag ==
    /\ ReachedSignupType
    /\ "signup_type" \notin DOMAIN pin
    /\ "request_on_behalf" \in DOMAIN pin

SignupTypeError == ErrorNaming["signup_type"]

\* C21: without a signup_type, the flags y and yes (in any case) are taken as
\* signup_type "child", n and no (in any case) as "self", and every other
\* flag value fails the validation.
C21_LegacyFlagAliasing ==
    OnlyLegacyFlag =>
        LET flag == Lower(pin["request_on_behalf"])
        IN /\ flag \in {<<"y">>, <<"yes">>} =>
                 IF pout["valid"]
                 THEN pout["signup_type"] = <<"child">>
                 ELSE pout["error"] = ErrorNaming["child_name"]
           /\ flag \in {<<"n">>, <<"no">>} =>
                 (pout["valid"] /\ pout["signup_type"] = <<"self">>)
           /\ flag \notin {<<"y">>, <<"yes">>, <<"n">>, <<"no">>} =>
                 (~pout["valid"] /\ pout["error"] = SignupTypeError)

\* the input supplies a non-empty signup_type
SignupTypeGiven == ReachedSignupType /\ Truthy(DictGet(pin, "signup_type", None))

\* C22: a supplied signup_type passes exactly when it is "self" or "child";
\* any other non-empty value fails with the signup type error, whether or not
\* the legacy flag is in the input.
C22_EnumeratedSignupType ==
    SignupTypeGiven =>
        IF pin["signup_type"] \in {<<"self">>, <<"child">>}
        THEN IF pout["valid"]
             THEN pout["signup_type"] = pin["signup_type"]
             ELSE /\ pin["signup_type"] = <<"child">>
                  /\ pout["error"] = ErrorNaming["child_name"]
        ELSE ~pout["valid"] /\ pout["error"] = SignupTypeError

\* a near-synonym rejected although the legacy flag y stands next to it
C22_Witness ==
    /\ SignupTypeGiven
    /\ pin["signup_type"] = <<"myself">>
    /\ "request_on_behalf" \in DOMAIN pin
    /\ pin["request_on_behalf"] = <<"y">>
    /\ ~pout["valid"]
    /\ pout["error"] = SignupTypeError

-----------------------------------------------------------------------------
(* Properties of the questions *)

\* the field is not collected, and its condition (if it has one) is met or
\* cannot be told yet
Outstanding(collected_data, field) ==
    /\ field \notin DOMAIN collected_data
    /\ field \in DOMAIN conditional =>
          \/ conditional[field].field \notin DOMAIN collected_data
          \/ collected_data[conditional[field].field] = <<conditional[field].value>>

\* the first outstanding field in the insertion order of required_fields
FirstOutstanding(collected_data) ==
    LET first == CHOOSE i \in DOMAIN required_fields :
                    /\ Outstanding(collected_data, required_fields[i])
                    /\ \A j \in 1..(i - 1) :
                          ~Outstanding(collected_data, required_fields[j])
    IN required_fields[first]

IsQuestionTurn == IsTurn /\ turn.response.type = "question"

AsksChildName ==
    /\ turn.op \in {"start_conversation", "continue_conversation"}
    /\ "asking_for" \in DOMAIN turn.response
    /\ turn.response.asking_for = "child_name"

-----------------------------------------------------------------------------
(* Properties of the web application under concurrent requests *)

\* the request was answered with the "Session not found" response
AnsweredNotFound(r) ==
    /\ reqs[r].pc = "done"
    /\ reqs[r].route = "/api/chat/message"
    /\ reqs[r].result.success
    /\ reqs[r].result.data.type = "error"

\* C25: get_conversational_agent yields one ConversationalAgent instance for
\* the life of the process, so no /api/chat/message that carries a session_id
\* returned by /api/chat/start is answered "Session not found".
C25_OneAgentInstance ==
    /\ Len(agents) <= 1
    /\ \A r \in DOMAIN reqs : ~AnsweredNotFound(r)

-----------------------------------------------------------------------------
(* Properties of conversations in which every question is answered *)

\* user turns the session has had
UserTurns(session) ==
    Cardinality({i \in DOMAIN session.conversation_history :
                    session.conversation_history[i].type = "user"})

\* the agent's last response to the session was the completion
Completed(sid) ==
    /\ sid \in DOMAIN sessions
    /\ sessions[sid].conversation_history # <<>>
    /\ AskedFor(sessions[sid]) = "none"
    /\ PostsOf(sid) >= 1

\* a session still being asked has had fewer than 4 user turns, and fewer than
\* 3 when its signup type is "self"; a completion response carries
\* session_complete and a webhook_result
WithinFourTurns ==
    /\ \A sid \in DOMAIN sessions :
          ~Completed(sid) =>
              /\ UserTurns(sessions[sid]) < 4
              /\ DictGet(sessions[sid].collected_data, "signup_type", None) = <<"self">>
                    => UserTurns(sessions[sid]) < 3
    /\ \A sid \in DOMAIN sessions :
          Completed(sid) =>
              /\ UserTurns(sessions[sid]) <= 4
              /\ sessions[sid].collected_data["signup_type"] = <<"self">>
                    => UserTurns(sessions[sid]) <= 3
    /\ (IsTurn /\ turn.response.type = "completion") =>
          /\ turn.response.session_complete
          /\ "webhook_result" \in DOMAIN turn.response

\* C26: when every reply supplies the field that was asked for, above the
\* threshold, every session reaches the completion response, within at most 4
\* user turns, and within 3 when its signup type is "self".
C26_AnsweredSessionsComplete ==
    /\ []WithinFourTurns
    /\ []<>(\A sid \in DOMAIN sessions : Completed(sid))

\* a session completed on its fourth turn, with a child's name
C26_Witness ==
    \E sid \in DOMAIN sessions :
        /\ Completed(sid)
        /\ UserTurns(sessions[sid]) = 4
        /\ sessions[sid].collected_data["signup_type"] = <<"child">>
        /\ "child_name" \in DOMAIN sessions[sid].collected_data

-----------------------------------------------------------------------------
(* Properties of validating a validated record *)

\* the four fields of a successful validation's record
ValidatedFields == {"adult_name", "email_address", "signup_type", "child_name"}

\* validating r again succeeds with the same four field values
Revalidates(r) ==
    LET again == _validate_form_data(r)
    IN /\ again["valid"]
       /\ \A f \in ValidatedFields : again[f] = r[f]

\* C27: validation is idempotent on its own successes: a record returned
\* with valid = true validates again to valid = true with the same adult_name,
\* email_address, signup_type and child_name.
C27_ValidationIdempotent ==
    (IsValidation /\ pout["valid"]) => Revalidates(pout)

-----------------------------------------------------------------------------
(* Properties of the line scanner's path *)

\* the model's content held no JSON object and the line scanner was used
ScannerUsed == IsProcessUserInput /\ pin.llm.kind = "text"

\* the keys the line scanner assigns
ScannerKeys == {"name_of_requestor", "request_on_behalf", "name_of_child"}

\* C28: when the line scanner is used, process_user_input makes no webhook
\* call and returns success = false: the scanner's record holds only the keys
\* name_of_requestor, request_on_behalf and name_of_child, never
\* email_address, so its validation fails.
C28_ScannerNeverSubmits ==
    ScannerUsed =>
        /\ DOMAIN pin.llm.data \subseteq ScannerKeys
        /\ ~_validate_form_data(pin.llm.data)["valid"]
        /\ pposts = <<>>
        /\ CountOf(PostCall) = 0
        /\ pout["success"] = FALSE

\* the scanner found a requestor, the flag y and a child's name, and the call
\* failed without a POST
C28_Witness ==
    /\ ScannerUsed
    /\ pin.llm.data = [name_of_requestor |-> <<"Bob">>, request_on_behalf |-> <<"y">>,
                       name_of_child |-> <<"Di">>]
    /\ pout["success"] = FALSE
    /\ pposts = <<>>

====
